---- MODULE Spec2Model ----
(***************************************************************************)
(* The embeddings service of src/embeddings-service/main.py: a FastAPI     *)
(* application with one process-wide SentenceTransformer model and two     *)
(* routes, GET /health and POST /embed.                                    *)
(*                                                                         *)
(* State: the process (importing the module, serving, or exited), the two  *)
(* module globals MODEL_NAME and model, the requests the framework's       *)
(* worker threads are handling (a synchronous `def` handler runs in the    *)
(* thread pool, so several can be in flight), and what each worker has     *)
(* answered so far.                                                        *)
(***************************************************************************)
EXTENDS Integers, Sequences, FiniteSets

\* ------------------------------------------------------------------ bounds

\* the longest `texts` array a client sends
MaxTexts == 2
\* the number of requests the process receives in a run with two workers
MaxServed == 2
\* the number of requests the process receives in a run with one worker
MaxSerial == 4

\* ------------------------------------------------------ program constants

\* line 9: "outputs 384-dim vectors"
ModelDim == 384

ModelId == "sentence-transformers/all-MiniLM-L6-v2"

\* the value of the global `model` before line 9 has run
NoModel == [name |-> "", dim |-> 0, loaded |-> FALSE]

\* SentenceTransformer(name): the loaded model object
SentenceTransformer(name) == [name |-> name, dim |-> ModelDim, loaded |-> TRUE]

\* two threads of the framework's pool: handlers can overlap pairwise
Workers == {"w1", "w2"}

\* ---------------------------------------------------------------- JSON

\* JSON scalars a client can put in `texts`: strings and a number
JString(s) == [type |-> "string", val |-> s]
JNumber(s) == [type |-> "number", val |-> s]
Elems == {JString("a"), JString("b"), JNumber("123")}

\* sequences over S of length at most n
SeqUpTo(S, n) == UNION {[1..k -> S] : k \in 0..n}

\* the values of the `texts` field: an array of scalars, or a bare string
JArray(items) == [type |-> "array", val |-> "", items |-> items]
JScalar(t, s) == [type |-> t, val |-> s, items |-> <<>>]
TextsValues ==
    {JArray(items) : items \in SeqUpTo(Elems, MaxTexts)}
        \cup {JScalar("string", "not-a-list")}

\* request bodies: a JSON object with or without the field `texts`
Bodies ==
    {[has_texts |-> TRUE, texts |-> v] : v \in TextsValues}
        \cup {[has_texts |-> FALSE, texts |-> JScalar("null", "")]}

NoBody == [has_texts |-> FALSE, texts |-> JScalar("none", "")]

\* ------------------------------------------------------- EmbedRequest

\* texts: list -- the elements are not checked
EmbedRequestValid_untyped(body) ==
    /\ body.has_texts
    /\ body.texts.type = "array"

\* class EmbedRequest(BaseModel): texts: List[str]
\* the field is required, must be an array, and every element a string
\* (a JSON number is no str: pydantic 2 does not coerce it)
EmbedRequestValid(body) ==
    /\ body.has_texts
    /\ body.texts.type = "array"
    /\ \A i \in 1..Len(body.texts.items) : body.texts.items[i].type = "string"

\* req.texts of a validated body: the strings, in order
EmbedRequestTexts(body) ==
    [i \in 1..Len(body.texts.items) |-> body.texts.items[i].val]

\* ----------------------------------------------------- model provider

\* SentenceTransformer.encode is the library's; what it returns is taken from
\* its contract: a fixed vector per text, of the model's dimension, different
\* with and without normalization. The components are stand-ins for floats.
TextCode(t) == CASE t = "a" -> 1 [] t = "b" -> 2 [] OTHER -> 3

\* the k-th component of the embedding of text t
Component(t, k, normalize) ==
    IF normalize THEN TextCode(t) * 1000 + k ELSE -(TextCode(t) * 1000 + k)

\* model.encode(texts, normalize_embeddings=normalize).tolist():
\* one vector of the model's dimension per text, in order
Encode(m, texts, normalize) ==
    [i \in 1..Len(texts) |-> [k \in 1..m.dim |-> Component(texts[i], k, normalize)]]

\* ------------------------------------------------------------ responses

NoVectors == <<>>
NoCall == [called |-> FALSE, texts |-> <<>>, normalize_embeddings |-> FALSE]
NoPayload == [model |-> "", dim |-> 0, vectors |-> <<>>, status |-> "", detail |-> ""]

\* health(): {"status": "ok", "model": MODEL_NAME}
HealthPayload(name) ==
    [model |-> name, dim |-> 0, vectors |-> <<>>, status |-> "ok", detail |-> ""]

\* "dim": len(vectors) -- the number of vectors instead of their length
EmbedPayload_count(name, vecs) ==
    [model |-> name, dim |-> Len(vecs), vectors |-> vecs, status |-> "", detail |-> ""]

\* "dim": the number of floats returned
EmbedPayload_flat(name, vecs) ==
    [model |-> name,
     dim |-> IF vecs # <<>> THEN Len(vecs) * Len(vecs[1]) ELSE 0,
     vectors |-> vecs,
     status |-> "", detail |-> ""]

\* "dim": the model's dimension, whatever the result holds
EmbedPayload_model_dim(name, vecs) ==
    [model |-> name, dim |-> ModelDim, vectors |-> vecs, status |-> "", detail |-> ""]

\* embed(): {"model": MODEL_NAME, "dim": len(vectors[0]) if vectors else 0,
\*           "vectors": vectors}
EmbedPayload(name, vecs) ==
    [model |-> name,
     dim |-> IF vecs # <<>> THEN Len(vecs[1]) ELSE 0,
     vectors |-> vecs,
     status |-> "", detail |-> ""]

\* the framework's answer to a body that fails EmbedRequest's validation
ValidationErrorPayload ==
    [model |-> "", dim |-> 0, vectors |-> <<>>, status |-> "",
     detail |-> "validation error"]

\* the framework's answer to an exception raised by a handler
ServerErrorPayload ==
    [model |-> "", dim |-> 0, vectors |-> <<>>, status |-> "",
     detail |-> "Internal Server Error"]

Response(code, payload) == [code |-> code, payload |-> payload]
NoResponse == Response(0, NoPayload)

\* ---------------------------------------------------------------- state

VARIABLES
    proc,        \* "importing", "serving" or "exited"
    MODEL_NAME,  \* the module global MODEL_NAME
    model,       \* the module global model
    pc,          \* per worker: "idle", "handler", "encoded", "done"
    path,        \* per worker: the route of its request
    body,        \* per worker: the JSON body of its request
    call,        \* per worker: the arguments of its call of model.encode
    vectors,     \* per worker: the local `vectors` of embed()
    raised,      \* per worker: an exception left embed()
    resp,        \* per worker: the response sent
    prior,       \* per worker: the status codes it answered before its current request
    served       \* the number of requests received so far

vars == <<proc, MODEL_NAME, model, pc, path, body, call, vectors, raised, resp, prior, served>>

globals == <<proc, MODEL_NAME, model>>

\* lines 1-8 have run: the app exists, MODEL_NAME is bound, the model is not loaded
Init ==
    /\ proc = "importing"
    /\ MODEL_NAME = ModelId
    /\ model = NoModel
    /\ pc = [c \in Workers |-> "idle"]
    /\ path = [c \in Workers |-> ""]
    /\ body = [c \in Workers |-> NoBody]
    /\ call = [c \in Workers |-> NoCall]
    /\ vectors = [c \in Workers |-> NoVectors]
    /\ raised = [c \in Workers |-> FALSE]
    /\ resp = [c \in Workers |-> NoResponse]
    /\ prior = [c \in Workers |-> {}]
    /\ served = 0

\* the codes worker c has answered once its current response is counted
PriorAtArrival(c) == IF pc[c] = "done" THEN prior[c] \cup {resp[c].code} ELSE prior[c]

\* the server is up and worker c is free
CanAccept(c) ==
    /\ proc = "serving"
    /\ pc[c] \in {"idle", "done"}

\* ---------------------------------------------------------------- startup

\* line 9 succeeds; the rest of the module registers the routes and the
\* server starts serving
LoadModel ==
    /\ proc = "importing"
    /\ model' = SentenceTransformer(MODEL_NAME)
    /\ proc' = "serving"
    /\ UNCHANGED <<MODEL_NAME, pc, path, body, call, vectors, raised, resp, prior, served>>

\* line 9 wrapped in try/except: the process serves without a model
LoadModelFails_degraded ==
    /\ proc = "importing"
    /\ proc' = "serving"
    /\ UNCHANGED <<MODEL_NAME, model, pc, path, body, call, vectors, raised, resp, prior, served>>

\* line 9 raises: the import of the module fails and the process exits
LoadModelFails ==
    /\ proc = "importing"
    /\ proc' = "exited"
    /\ UNCHANGED <<MODEL_NAME, model, pc, path, body, call, vectors, raised, resp, prior, served>>

\* ------------------------------------------------------------ GET /health

\* health() that reports an earlier server error
health_degrading(c) ==
    /\ CanAccept(c)
    /\ path' = [path EXCEPT ![c] = "/health"]
    /\ body' = [body EXCEPT ![c] = NoBody]
    /\ call' = [call EXCEPT ![c] = NoCall]
    /\ vectors' = [vectors EXCEPT ![c] = NoVectors]
    /\ raised' = [raised EXCEPT ![c] = FALSE]
    /\ prior' = [prior EXCEPT ![c] = PriorAtArrival(c)]
    /\ served' = served + 1
    /\ resp' = [resp EXCEPT ![c] = Response(200,
            [HealthPayload(MODEL_NAME) EXCEPT
                !.status = IF 500 \in PriorAtArrival(c) THEN "degraded" ELSE "ok"])]
    /\ pc' = [pc EXCEPT ![c] = "done"]
    /\ UNCHANGED globals

health(c) ==
    /\ CanAccept(c)
    /\ path' = [path EXCEPT ![c] = "/health"]
    /\ body' = [body EXCEPT ![c] = NoBody]
    /\ call' = [call EXCEPT ![c] = NoCall]
    /\ vectors' = [vectors EXCEPT ![c] = NoVectors]
    /\ raised' = [raised EXCEPT ![c] = FALSE]
    /\ prior' = [prior EXCEPT ![c] = PriorAtArrival(c)]
    /\ served' = served + 1
    /\ resp' = [resp EXCEPT ![c] = Response(200, HealthPayload(MODEL_NAME))]
    /\ pc' = [pc EXCEPT ![c] = "done"]
    /\ UNCHANGED globals

\* ------------------------------------------------------------ POST /embed

\* a validation failure that takes the process down
embed_rejected_crash(c, b) ==
    /\ CanAccept(c)
    /\ ~EmbedRequestValid(b)
    /\ path' = [path EXCEPT ![c] = "/embed"]
    /\ body' = [body EXCEPT ![c] = b]
    /\ call' = [call EXCEPT ![c] = NoCall]
    /\ vectors' = [vectors EXCEPT ![c] = NoVectors]
    /\ raised' = [raised EXCEPT ![c] = FALSE]
    /\ prior' = [prior EXCEPT ![c] = PriorAtArrival(c)]
    /\ served' = served + 1
    /\ resp' = [resp EXCEPT ![c] = Response(422, ValidationErrorPayload)]
    /\ pc' = [pc EXCEPT ![c] = "done"]
    /\ proc' = "exited"
    /\ UNCHANGED <<MODEL_NAME, model>>

\* the body fails EmbedRequest: the framework answers 422, embed() is not called
embed_rejected(c, b) ==
    /\ CanAccept(c)
    /\ ~EmbedRequestValid(b)
    /\ path' = [path EXCEPT ![c] = "/embed"]
    /\ body' = [body EXCEPT ![c] = b]
    /\ call' = [call EXCEPT ![c] = NoCall]
    /\ vectors' = [vectors EXCEPT ![c] = NoVectors]
    /\ raised' = [raised EXCEPT ![c] = FALSE]
    /\ prior' = [prior EXCEPT ![c] = PriorAtArrival(c)]
    /\ served' = served + 1
    /\ resp' = [resp EXCEPT ![c] = Response(422, ValidationErrorPayload)]
    /\ pc' = [pc EXCEPT ![c] = "done"]
    /\ UNCHANGED globals

\* the body is an EmbedRequest: embed(req) starts on worker c
embed_accepted(c, b) ==
    /\ CanAccept(c)
    /\ EmbedRequestValid(b)
    /\ path' = [path EXCEPT ![c] = "/embed"]
    /\ body' = [body EXCEPT ![c] = b]
    /\ call' = [call EXCEPT ![c] = NoCall]
    /\ vectors' = [vectors EXCEPT ![c] = NoVectors]
    /\ raised' = [raised EXCEPT ![c] = FALSE]
    /\ prior' = [prior EXCEPT ![c] = PriorAtArrival(c)]
    /\ served' = served + 1
    /\ resp' = [resp EXCEPT ![c] = NoResponse]
    /\ pc' = [pc EXCEPT ![c] = "handler"]
    /\ UNCHANGED globals

\* model.encode(req.texts[::-1], ...): the texts in reverse order
EncodeCall_reversed(b) ==
    [called |-> TRUE,
     texts |-> [i \in 1..Len(b.texts.items) |->
                    b.texts.items[Len(b.texts.items) + 1 - i].val],
     normalize_embeddings |-> TRUE]

\* the arguments embed() gives model.encode
EncodeCall(b) ==
    [called |-> TRUE, texts |-> EmbedRequestTexts(b), normalize_embeddings |-> TRUE]

\* embed() that sets the shared model's output dimension for its request
embed_encode_truncating(c) ==
    /\ pc[c] = "handler"
    /\ model.loaded
    /\ call' = [call EXCEPT ![c] = EncodeCall(body[c])]
    /\ model' = [model EXCEPT !.dim = Len(EncodeCall(body[c]).texts) + 1]
    /\ vectors' = [vectors EXCEPT ![c] =
            Encode(model', EncodeCall(body[c]).texts, EncodeCall(body[c]).normalize_embeddings)]
    /\ pc' = [pc EXCEPT ![c] = "encoded"]
    /\ UNCHANGED <<proc, MODEL_NAME, path, body, raised, resp, prior, served>>

\* line 25: vectors = model.encode(req.texts, normalize_embeddings=True).tolist()
embed_encode(c) ==
    /\ pc[c] = "handler"
    /\ model.loaded
    /\ call' = [call EXCEPT ![c] = EncodeCall(body[c])]
    /\ vectors' = [vectors EXCEPT ![c] =
            Encode(model, EncodeCall(body[c]).texts, EncodeCall(body[c]).normalize_embeddings)]
    /\ pc' = [pc EXCEPT ![c] = "encoded"]
    /\ UNCHANGED <<globals, path, body, raised, resp, prior, served>>

\* an exception of line 25 that takes the process down
embed_encode_raises_crash(c) ==
    /\ pc[c] = "handler"
    /\ call' = [call EXCEPT ![c] = EncodeCall(body[c])]
    /\ raised' = [raised EXCEPT ![c] = TRUE]
    /\ pc' = [pc EXCEPT ![c] = "done"]
    /\ proc' = "exited"
    /\ UNCHANGED <<MODEL_NAME, model, path, body, vectors, resp, prior, served>>

\* line 25 raises: embed() has no handler for it, the framework answers 500
embed_encode_raises(c) ==
    /\ pc[c] = "handler"
    /\ call' = [call EXCEPT ![c] = EncodeCall(body[c])]
    /\ raised' = [raised EXCEPT ![c] = TRUE]
    /\ resp' = [resp EXCEPT ![c] = Response(500, ServerErrorPayload)]
    /\ pc' = [pc EXCEPT ![c] = "done"]
    /\ UNCHANGED <<globals, path, body, vectors, prior, served>>

\* lines 26-30: the response is built from `vectors` and MODEL_NAME, and the
\* local dies with the call
embed_return(c) ==
    /\ pc[c] = "encoded"
    /\ resp' = [resp EXCEPT ![c] = Response(200, EmbedPayload(MODEL_NAME, vectors[c]))]
    /\ vectors' = [vectors EXCEPT ![c] = NoVectors]
    /\ pc' = [pc EXCEPT ![c] = "done"]
    /\ UNCHANGED <<globals, path, body, call, raised, prior, served>>

\* two workers, runs of at most MaxServed requests
Next ==
    \/ LoadModel
    \/ LoadModelFails
    \/ served < MaxServed /\ \E c \in Workers : health(c)
    \/ served < MaxServed /\ \E c \in Workers, b \in Bodies : embed_rejected(c, b)
    \/ served < MaxServed /\ \E c \in Workers, b \in Bodies : embed_accepted(c, b)
    \/ \E c \in Workers : embed_encode(c)
    \/ \E c \in Workers : embed_encode_raises(c)
    \/ \E c \in Workers : embed_return(c)

Spec == Init /\ [][Next]_vars

\* one worker, runs of at most MaxSerial requests
NextSerial ==
    \/ LoadModel
    \/ LoadModelFails
    \/ served < MaxSerial /\ health("w1")
    \/ served < MaxSerial /\ \E b \in Bodies : embed_rejected("w1", b)
    \/ served < MaxSerial /\ \E b \in Bodies : embed_accepted("w1", b)
    \/ embed_encode("w1")
    \/ embed_encode_raises("w1")
    \/ embed_return("w1")

SpecSerial == Init /\ [][NextSerial]_vars

\* ---------------------------------------------------------------- claims

\* what the contract of the service expects, stated apart from the handlers

IsArray(b) == b.has_texts /\ b.texts.type = "array"

\* the field is missing, is not an array, or holds an element that is no string
Malformed(b) ==
    \/ ~b.has_texts
    \/ b.texts.type # "array"
    \/ \E i \in 1..Len(b.texts.items) : b.texts.items[i].type # "string"

\* the number of texts of a well-formed body
NTexts(b) == Len(b.texts.items)

\* the strings a client can send
Strings == {e.val : e \in Elems}

\* the vector the loaded model gives text t with normalization enabled
ExpectedVectorOf == [t \in Strings |-> [k \in 1..ModelDim |-> Component(t, k, TRUE)]]

ExpectedVector(t) == ExpectedVectorOf[t]

ExpectedVectors(b) == [i \in 1..NTexts(b) |-> ExpectedVector(b.texts.items[i].val)]

ExpectedEmbedOk(b) ==
    Response(200,
        [model |-> ModelId,
         dim |-> IF NTexts(b) = 0 THEN 0 ELSE ModelDim,
         vectors |-> ExpectedVectors(b),
         status |-> "", detail |-> ""])

ExpectedHealthOk ==
    Response(200,
        [model |-> ModelId, dim |-> 0, vectors |-> <<>>, status |-> "ok", detail |-> ""])

Done(c) == pc[c] = "done"
EmbedDone(c) == pc[c] = "done" /\ path[c] = "/embed"
EmbedOk(c) == EmbedDone(c) /\ resp[c].code = 200
HealthDone(c) == pc[c] = "done" /\ path[c] = "/health"

\* the response the request of worker c gets when it is the only request the
\* process ever serves and its call of encode ends the way it did
AloneResponse(c) ==
    IF path[c] = "/health" THEN ExpectedHealthOk
    ELSE IF Malformed(body[c]) THEN Response(422, ValidationErrorPayload)
    ELSE IF raised[c] THEN Response(500, ServerErrorPayload)
    ELSE ExpectedEmbedOk(body[c])

GlobalsAsLoaded ==
    /\ proc = "serving"
    /\ MODEL_NAME = ModelId
    /\ model = [name |-> ModelId, dim |-> ModelDim, loaded |-> TRUE]

\* C1: every accepted POST /embed whose encode returned is answered 200 with
\* exactly one vector per text, and every vector has the length the response
\* reports as dim.
C1_VectorsMatchTexts ==
    \A c \in Workers :
        /\ (EmbedDone(c) /\ ~Malformed(body[c]) /\ ~raised[c]) => resp[c].code = 200
        /\ EmbedOk(c) =>
            /\ Len(resp[c].payload.vectors) = NTexts(body[c])
            /\ \A i \in 1..Len(resp[c].payload.vectors) :
                    Len(resp[c].payload.vectors[i]) = resp[c].payload.dim

C1_Witness ==
    /\ EmbedOk("w1") /\ NTexts(body["w1"]) = 0
    /\ EmbedOk("w2") /\ NTexts(body["w2"]) = MaxTexts

\* C2: POST /embed with texts = [] whose encode returned is answered 200 with
\* the configured model identifier, dim 0 and no vectors; the handler reads no
\* element of the empty result.
C2_EmptyTexts ==
    \A c \in Workers :
        (EmbedDone(c) /\ IsArray(body[c]) /\ NTexts(body[c]) = 0 /\ ~raised[c]) =>
            /\ resp[c].code = 200
            /\ resp[c].payload.model = ModelId
            /\ resp[c].payload.dim = 0
            /\ resp[c].payload.vectors = <<>>
            /\ call[c].called /\ call[c].texts = <<>>

C2_Witness ==
    \E c \in Workers :
        /\ EmbedOk(c) /\ IsArray(body[c]) /\ NTexts(body[c]) = 0
        /\ call[c].texts = <<>> /\ ~raised[c]

\* C3: a body whose texts is missing, is no array or holds a non-string element
\* is answered with a 4xx code, and embed() and encode are never entered for it.
C3_MalformedRejected ==
    \A c \in Workers :
        (path[c] = "/embed" /\ Malformed(body[c])) =>
            /\ pc[c] = "done"
            /\ resp[c].code \in 400..499
            /\ ~call[c].called
            /\ vectors[c] = NoVectors
            /\ ~raised[c]

C3_Witness ==
    /\ EmbedDone("w1") /\ body["w1"].has_texts /\ body["w1"].texts.type = "string"
    /\ resp["w1"].code = 422
    /\ EmbedDone("w2") /\ body["w2"].texts = JArray(<<JNumber("123")>>)
    /\ resp["w2"].code = 422

\* C4: once a worker has answered a malformed request with 422, the process is
\* still serving with the model and identifier as loaded, and a later valid
\* request gets the response it gets when served alone.
C4_ServesAfterRejection ==
    \A c \in Workers :
        /\ (Done(c) /\ resp[c].code = 422) => GlobalsAsLoaded
        /\ (422 \in prior[c]) => GlobalsAsLoaded
        /\ (422 \in prior[c] /\ EmbedDone(c) /\ ~Malformed(body[c])) =>
                resp[c] = AloneResponse(c)

C4_Witness ==
    /\ prior["w1"] = {422}
    /\ EmbedOk("w1")
    /\ NTexts(body["w1"]) > 0
    /\ resp["w1"] = ExpectedEmbedOk(body["w1"])

\* C5: every GET /health is answered 200 with status ok and the configured
\* model identifier, whatever the worker answered before (200, 422 or 500), and
\* a successful /embed response names the same identifier.
C5_HealthOk ==
    \A c \in Workers :
        /\ HealthDone(c) =>
            /\ resp[c].code = 200
            /\ resp[c].payload.status = "ok"
            /\ resp[c].payload.model = ModelId
        /\ EmbedOk(c) => resp[c].payload.model = ModelId
        /\ (Done(c) /\ proc = "serving") => ENABLED health(c)

C5_Witness ==
    /\ HealthDone("w1")
    /\ prior["w1"] = {200, 422, 500}
    /\ resp["w1"] = ExpectedHealthOk

\* C6: a process whose model failed to load has exited without taking a
\* request, and every request taken or answered sees the loaded model.
C6_NoServiceWithoutModel ==
    /\ proc = "exited" =>
            /\ served = 0
            /\ \A c \in Workers : pc[c] = "idle" /\ resp[c] = NoResponse
    /\ served > 0 => model.loaded /\ model.name = ModelId /\ model.dim = ModelDim
    /\ \A c \in Workers : pc[c] # "idle" => model.loaded
    /\ proc = "serving" => model.loaded

C6_Witness ==
    /\ proc = "exited"
    /\ ~model.loaded
    /\ served = 0

\* C7: a request whose encode raised is answered 500 with the process still
\* serving and the globals as loaded, and what the worker answers after a 500
\* (/health, a valid or a malformed /embed) is what it answers when served alone.
C7_ServerErrorThenServes ==
    \A c \in Workers :
        /\ raised[c] =>
            /\ pc[c] = "done"
            /\ resp[c] = Response(500, ServerErrorPayload)
            /\ GlobalsAsLoaded
        /\ (Done(c) /\ resp[c].code = 500) => raised[c]
        /\ (500 \in prior[c]) => GlobalsAsLoaded
        /\ (500 \in prior[c] /\ Done(c)) => resp[c] = AloneResponse(c)

C7_Witness ==
    /\ prior["w1"] = {500}
    /\ EmbedOk("w1")
    /\ NTexts(body["w1"]) > 0
    /\ resp["w1"] = ExpectedEmbedOk(body["w1"])

\* C8: two successful /embed responses with non-empty texts report the same
\* dim, whatever the number and content of their texts; a successful response
\* reports dim 0 exactly when its texts is empty.
C8_DimConstant ==
    \A c \in Workers, d \in Workers :
        /\ (EmbedOk(c) /\ EmbedOk(d) /\ NTexts(body[c]) > 0 /\ NTexts(body[d]) > 0) =>
                resp[c].payload.dim = resp[d].payload.dim
        /\ EmbedOk(c) => (resp[c].payload.dim = 0 <=> NTexts(body[c]) = 0)

C8_Witness ==
    /\ EmbedOk("w1") /\ NTexts(body["w1"]) = 1
    /\ EmbedOk("w2") /\ NTexts(body["w2"]) = MaxTexts
    /\ body["w1"].texts.items[1] # body["w2"].texts.items[1]
    /\ resp["w1"].payload.dim = resp["w2"].payload.dim

\* C9: while the process serves, model and MODEL_NAME stay as loaded, and under
\* every interleaving of two workers the vectors a handler holds and the
\* response a request gets are those of the request served alone.
C9_ReadOnlyGlobals ==
    /\ proc = "serving" => GlobalsAsLoaded
    /\ \A c \in Workers :
        /\ pc[c] = "encoded" => vectors[c] = ExpectedVectors(body[c])
        /\ Done(c) => resp[c] = AloneResponse(c)

\* both handlers are between line 25 and line 26 at the same time
C9_Witness ==
    /\ pc["w1"] = "encoded" /\ pc["w2"] = "encoded"
    /\ NTexts(body["w1"]) > 0 /\ NTexts(body["w2"]) > 0
    /\ body["w1"] # body["w2"]
    /\ vectors["w1"] # vectors["w2"]

\* C10: embed() calls encode with the texts of the request, in order, and with
\* normalization enabled, and the i-th vector of a successful response is the
\* model's vector for the i-th text; equal texts get equal vectors.
C10_OrderPreserved ==
    \A c \in Workers :
        /\ call[c].called =>
            /\ call[c].normalize_embeddings
            /\ Len(call[c].texts) = NTexts(body[c])
            /\ \A i \in 1..NTexts(body[c]) : call[c].texts[i] = body[c].texts.items[i].val
        /\ EmbedOk(c) =>
            /\ Len(resp[c].payload.vectors) = NTexts(body[c])
            /\ \A i \in 1..NTexts(body[c]) :
                    resp[c].payload.vectors[i] = ExpectedVector(body[c].texts.items[i].val)
            /\ \A i \in 1..NTexts(body[c]), j \in 1..NTexts(body[c]) :
                    body[c].texts.items[i] = body[c].texts.items[j] =>
                        resp[c].payload.vectors[i] = resp[c].payload.vectors[j]

C10_Witness ==
    /\ EmbedOk("w1") /\ body["w1"].texts = JArray(<<JString("a"), JString("a")>>)
    /\ EmbedOk("w2") /\ body["w2"].texts = JArray(<<JString("b"), JString("a")>>)
    /\ resp["w2"].payload.vectors[1] # resp["w2"].payload.vectors[2]

====
